---------------------------- MODULE Spec2Model ----------------------------
(***************************************************************************)
(* Model of the Bill-of-Lading batch extractor:                            *)
(*   src/batch_extract.py  (to_iso_date, extract_regex, write_csvs,        *)
(*                          process_one, main)                             *)
(*   src/llm_extract.py    (_coerce_json, extract_openai)                  *)
(*                                                                         *)
(* Python values are modelled as tagged records (t = "null", "str", "num", *)
(* "obj", "list"); a dict is a function from key strings to values, so a   *)
(* key can be absent.  Numbers are fixed-point integers in units of        *)
(* 1/Scale.  An OCR text is a sequence of lexemes; each lexeme lists the   *)
(* matches the five regular expressions of batch_extract.py find in it.    *)
(***************************************************************************)
EXTENDS Integers, Sequences, FiniteSets, TLC

(***************************************************************************)
(* Bounds of the model.                                                    *)
(***************************************************************************)
MaxRuns == 2
MaxAttempts == 2
MaxTextLen == 2

(***************************************************************************)
(* Python / JSON values.                                                   *)
(***************************************************************************)
None == [t |-> "null"]
JStr(s) == [t |-> "str", v |-> s]
JNum(n) == [t |-> "num", v |-> n]
JObj(f) == [t |-> "obj", v |-> f]
JList(s) == [t |-> "list", v |-> s]

EmptyDict == JObj(<<>>)

\* one unit of the fixed-point numbers: 1.0 == Scale (five decimals, as 2.20462)
Scale == 10 ^ 5
\* the float literal 2.20462 of extract_regex, in units of 1/Scale
KgToLb == 220462

IsDict(x) == x.t = "obj"

\* Python truthiness of a value (the `x or y` idiom of write_csvs)
Truthy(x) ==
    CASE x.t = "null" -> FALSE
      [] x.t = "str"  -> x.v # ""
      [] x.t = "num"  -> x.v # 0
      [] x.t = "obj"  -> DOMAIN x.v # {}
      [] x.t = "list" -> Len(x.v) > 0
      [] OTHER        -> TRUE

\* `a or b`
PyOr(a, b) == IF Truthy(a) THEN a ELSE b

\* dict.get(key, default) on a value known to be a dict
DictGet(d, key, default) == IF key \in DOMAIN d.v THEN d.v[key] ELSE default

(***************************************************************************)
(* Results of a call: a returned value or a raised exception.              *)
(***************************************************************************)
Return(x) == [kind |-> "return", val |-> x]
Exc(cls, msg, status) == [cls |-> cls, msg |-> msg, status |-> status]
Raise(e) == [kind |-> "raise", exc |-> e]

(***************************************************************************)
(* Decimal formatting (f"{idx:04d}", date.isoformat()).                    *)
(***************************************************************************)
Digit(d) ==
    CASE d = 0 -> "0" [] d = 1 -> "1" [] d = 2 -> "2" [] d = 3 -> "3"
      [] d = 4 -> "4" [] d = 5 -> "5" [] d = 6 -> "6" [] d = 7 -> "7"
      [] d = 8 -> "8" [] d = 9 -> "9"

RECURSIVE DecStr(_)
DecStr(n) == IF n < 10 THEN Digit(n) ELSE DecStr(n \div 10) \o Digit(n % 10)

RECURSIVE ZeroPad(_, _)
\* zero-pads to at least `width` characters, never truncates
ZeroPad(s, width) == IF Len(s) >= width THEN s ELSE ZeroPad("0" \o s, width)

(***************************************************************************)
(* OCR text.  A lexeme is a piece of text with, for each pattern of        *)
(* batch_extract.py lines 27-31, the matches the pattern finds in it, in   *)
(* text order: bol/pro hold group(1) of BOL_RE/PRO_RE, date the candidate  *)
(* DATE_RE captures, scac the words SCAC_RE finds, weight the (number,     *)
(* unit) pairs WEIGHT_RE finds.                                            *)
(***************************************************************************)
Lexeme(bol, pro, date, scac, weight) ==
    [bol |-> bol, pro |-> pro, date |-> date, scac |-> scac, weight |-> weight]

\* a date candidate "a/b/c" or "a-b-c": the three numbers and the digit
\* counts of the first and the last
DateCand(a, alen, b, c, clen) ==
    [a |-> a, alen |-> alen, b |-> b, c |-> c, clen |-> clen]

\* "BOL# AB123456": SCAC_RE also finds the upper-case word BOL
TokBol == Lexeme(<<"AB123456">>, <<>>, <<>>, <<"BOL">>, <<>>)
\* "Pro No. 7734512"
TokPro == Lexeme(<<>>, <<"7734512">>, <<>>, <<>>, <<>>)
\* "03/14/2024"
TokDateUS == Lexeme(<<>>, <<>>, <<DateCand(3, 2, 14, 2024, 4)>>, <<>>, <<>>)
\* "2024-01-05"
TokDateIso == Lexeme(<<>>, <<>>, <<DateCand(2024, 4, 1, 5, 2)>>, <<>>, <<>>)
\* "13/45/2024": matches DATE_RE, is no calendar date
TokDateBad == Lexeme(<<>>, <<>>, <<DateCand(13, 2, 45, 2024, 4)>>, <<>>, <<>>)
\* "ABCD"
TokScac == Lexeme(<<>>, <<>>, <<>>, <<"ABCD">>, <<>>)
\* "1200 lbs"
TokLbs == Lexeme(<<>>, <<>>, <<>>, <<>>, <<[w |-> 1200, unit |-> "lbs"]>>)
\* "1000 KG": the unit is matched case-insensitively, SCAC_RE finds KG
TokKg == Lexeme(<<>>, <<>>, <<>>, <<"KG">>, <<[w |-> 1000, unit |-> "KG"]>>)
\* "00 lb"
TokZeroLb == Lexeme(<<>>, <<>>, <<>>, <<>>, <<[w |-> 0, unit |-> "lb"]>>)
\* "shipped": nothing matches
TokNoise == Lexeme(<<>>, <<>>, <<>>, <<>>, <<>>)

Lexemes ==
    {TokBol, TokPro, TokDateUS, TokDateIso, TokDateBad, TokScac, TokLbs,
     TokKg, TokZeroLb, TokNoise}

\* all texts of at most n lexemes
TextsUpTo(n) == UNION {[1..k -> Lexemes] : k \in 0..n}

RECURSIVE FindAll(_, _)
\* pattern.findall(text): the matches of one pattern over the whole text
FindAll(field, text) ==
    IF text = <<>> THEN <<>>
    ELSE Head(text)[field] \o FindAll(field, Tail(text))

(***************************************************************************)
(* dateutil's parser.parse(s, dayfirst=False).date().isoformat()           *)
(***************************************************************************)
IsLeap(y) == (y % 4 = 0 /\ y % 100 # 0) \/ y % 400 = 0

DaysIn(m, y) ==
    CASE m \in {1, 3, 5, 7, 8, 10, 12} -> 31
      [] m \in {4, 6, 9, 11}           -> 30
      [] m = 2                         -> IF IsLeap(y) THEN 29 ELSE 28
      [] OTHER                         -> 0

\* two-digit years are read in the current century unless a part of the
\* candidate has more than two digits
ConvertYear(y, centurySpecified) ==
    IF y < 100 /\ ~centurySpecified THEN 2000 + y ELSE y

\* the (year, month, day) dateutil resolves three numbers to
ResolveYmd(c) ==
    LET century == c.alen > 2 \/ c.clen > 2
    IN  IF c.a > 31 \/ c.alen > 2
        THEN [y |-> ConvertYear(c.a, century), m |-> c.b, d |-> c.c]
        ELSE IF c.a > 12
        THEN [y |-> ConvertYear(c.c, century), m |-> c.b, d |-> c.a]
        ELSE [y |-> ConvertYear(c.c, century), m |-> c.a, d |-> c.b]

IsoFormat(ymd) ==
    ZeroPad(DecStr(ymd.y), 4) \o "-" \o ZeroPad(DecStr(ymd.m), 2)
        \o "-" \o ZeroPad(DecStr(ymd.d), 2)

parser_parse(c) ==
    LET ymd == ResolveYmd(c)
    IN  IF /\ ymd.y \in 1..9999
           /\ ymd.m \in 1..12
           /\ ymd.d \in 1..DaysIn(ymd.m, ymd.y)
        THEN Return(JStr(IsoFormat(ymd)))
        ELSE Raise(Exc("ParserError", <<"Unknown", "string", "format">>, 0))

\* to_iso_date without its try/except
to_iso_date_unguarded(s) ==
    IF s = None THEN Return(None) ELSE parser_parse(s)

\* s is None or a date candidate
to_iso_date(s) ==
    IF s = None THEN Return(None)
    ELSE LET r == parser_parse(s)
         IN  IF r.kind = "raise" THEN Return(None) ELSE r

(***************************************************************************)
(* extract_regex                                                           *)
(***************************************************************************)
SchemaKeys ==
    {"bol_number", "pro_number", "ship_date", "carrier", "freight_lines",
     "total_weight", "total_packages"}
CarrierKeys == {"name", "scac"}
LineKeys == {"description", "quantity", "package_type", "weight", "weight_unit"}

\* unit.lower()
Lower(unit) ==
    CASE unit = "KG" -> "kg" [] unit = "KGS" -> "kgs" [] unit = "LB" -> "lb"
      [] unit = "LBS" -> "lbs" [] OTHER -> unit

\* unit.startswith("kg")
StartsWithKg(unit) == unit \in {"kg", "kgs"}

\* the loop body without the kg branch
WeightValueAsRead(m) == m.w * Scale

\* one pass of the loop of lines 83-88
WeightValue(m) ==
    IF StartsWithKg(Lower(m.unit)) THEN m.w * KgToLb ELSE m.w * Scale

RECURSIVE WeightValues(_)
WeightValues(ms) ==
    IF ms = <<>> THEN <<>>
    ELSE <<WeightValue(Head(ms))>> \o WeightValues(Tail(ms))

\* Python's max of a non-empty list
Max(xs) == CHOOSE x \in {xs[i] : i \in DOMAIN xs} : \A i \in DOMAIN xs : xs[i] <= x

FreightLine(weight) ==
    JObj([k \in LineKeys |->
            CASE k = "description"  -> JStr("Freight")
              [] k = "quantity"     -> JNum(1 * Scale)
              [] k = "package_type" -> JStr("PKG")
              [] k = "weight"       -> weight
              [] k = "weight_unit"  -> JStr("lb")])

extract_regex(text) ==
    LET bols    == FindAll("bol", text)
        pros    == FindAll("pro", text)
        dates   == FindAll("date", text)
        scacs   == FindAll("scac", text)
        weights == WeightValues(FindAll("weight", text))
        iso     == IF dates # <<>> THEN to_iso_date(Head(dates)) ELSE Return(None)
        total   == IF weights # <<>> THEN JNum(Max(weights)) ELSE None
    IN  IF iso.kind = "raise" THEN iso
        ELSE Return(JObj([k \in SchemaKeys |->
            CASE k = "bol_number"     -> IF bols # <<>> THEN JStr(Head(bols)) ELSE None
              [] k = "pro_number"     -> IF pros # <<>> THEN JStr(Head(pros)) ELSE None
              [] k = "ship_date"      -> iso.val
              [] k = "carrier"        ->
                    JObj([c \in CarrierKeys |->
                            IF c = "scac" /\ scacs # <<>>
                            THEN JStr(Head(scacs)) ELSE None])
              [] k = "freight_lines"  ->
                    IF weights # <<>> THEN JList(<<FreightLine(total)>>)
                    ELSE JList(<<>>)
              [] k = "total_weight"   -> total
              [] k = "total_packages" -> None]))

(***************************************************************************)
(* _coerce_json.  A completion's content is JSON text, or no JSON at all   *)
(* (Garbage), possibly with prose around it.                               *)
(***************************************************************************)
Garbage == [t |-> "invalid"]
Content(prose, json) == [prose |-> prose, json |-> json]

JSONDecodeError == Exc("JSONDecodeError", <<"Expecting", "value">>, 0)

_coerce_json(c) ==
    IF ~c.prose /\ c.json # Garbage
    THEN Return(c.json)                       \* json.loads(s) succeeds
    ELSE IF c.prose /\ c.json # Garbage /\ IsDict(c.json)
    THEN Return(c.json)                       \* the outermost {...} span
    ELSE Raise(JSONDecodeError)

(***************************************************************************)
(* What the collaborator may answer.                                       *)
(***************************************************************************)
LineOf(desc, weight) ==
    JObj([k \in LineKeys |->
            CASE k = "description"  -> JStr(desc)
              [] k = "quantity"     -> JNum(2 * Scale)
              [] k = "package_type" -> JStr("PLT")
              [] k = "weight"       -> JNum(weight * Scale)
              [] k = "weight_unit"  -> JStr("lb")])

RecWith(carrier, lines) ==
    JObj([k \in SchemaKeys |->
            CASE k = "bol_number"     -> JStr("ZX998877")
              [] k = "pro_number"     -> None
              [] k = "ship_date"      -> JStr("2024-02-01")
              [] k = "carrier"        -> carrier
              [] k = "freight_lines"  -> lines
              [] k = "total_weight"   -> JNum(900 * Scale)
              [] k = "total_packages" -> JNum(3 * Scale)])

CarrierOf(name, scac) == JObj([c \in CarrierKeys |-> IF c = "name" THEN name ELSE scac])

\* a complete record with two freight lines
RecFull ==
    RecWith(CarrierOf(JStr("Acme"), JStr("ACME")),
            JList(<<LineOf("Drums", 600), LineOf("Crates", 300)>>))
\* "If unsure, use null": every key present, every value null
RecNulls == JObj([k \in SchemaKeys |-> None])
\* the carrier given as a string
RecCarrierStr == RecWith(JStr("Acme"), JList(<<LineOf("Drums", 600)>>))
\* a freight line that is no object
RecBadLine == RecWith(None, JList(<<LineOf("Drums", 600), JStr("Crates")>>))

\* the schema allows additional properties: the weights of a weighbridge
\* ticket, 1000 gross and 100 tare, the net weight left null
RecWeights ==
    JObj([k \in SchemaKeys \cup {"gross_weight", "tare_weight", "net_weight"} |->
            CASE k = "gross_weight"  -> JNum(1000 * Scale)
              [] k = "tare_weight"   -> JNum(100 * Scale)
              [] k = "freight_lines" -> JList(<<>>)
              [] OTHER               -> None])

\* EmptyDict: the keys the schema declares are left out (it requires none);
\* None: the completion is the JSON text null
LlmValues ==
    {RecFull, RecNulls, EmptyDict, RecCarrierStr, RecBadLine, RecWeights, None}

Contents ==
    {Content(FALSE, v) : v \in LlmValues}
        \cup {Content(TRUE, RecFull), Content(TRUE, None), Content(FALSE, Garbage)}

\* client.post either raises (a network error) or gives a response
NetErr == [kind |-> "neterr", status |-> 0, retryAfter |-> "absent",
           quota |-> FALSE, envelope |-> FALSE, content |-> Content(FALSE, Garbage)]

Resp(status, retryAfter, quota, envelope, content) ==
    [kind |-> "resp", status |-> status, retryAfter |-> retryAfter,
     quota |-> quota, envelope |-> envelope, content |-> content]

Upstream ==
    {NetErr}
      \cup {Resp(200, "absent", FALSE, TRUE, c) : c \in Contents}
      \cup {Resp(200, "absent", FALSE, FALSE, Content(FALSE, Garbage))}
      \cup {Resp(st, "absent", FALSE, FALSE, Content(FALSE, Garbage)) :
                st \in {302, 400, 401, 403}}
      \cup {Resp(st, ra, FALSE, FALSE, Content(FALSE, Garbage)) :
                st \in {429, 500}, ra \in {"absent", "numeric", "garbage"}}
      \* HTTP 429 whose body carries the code insufficient_quota
      \cup {Resp(429, "absent", TRUE, FALSE, Content(FALSE, Garbage))}

(***************************************************************************)
(* Input files and their discovery order.                                  *)
(***************************************************************************)
File(base, ext) == [base |-> base, ext |-> ext]

\* the base names in lexicographic order
BaseOrder == <<"a", "b">>
Rank(base) == CHOOSE i \in DOMAIN BaseOrder : BaseOrder[i] = base

SampleSets ==
    { {},
      {File("a", "pdf")},
      {File("b", "pdf"), File("a", "pdf")},
      {File("a", "jpg"), File("a", "png"), File("b", "pdf")} }

RECURSIVE Sorted(_)
\* sorted(glob.glob(...)) of files of one extension
Sorted(S) ==
    IF S = {} THEN <<>>
    ELSE LET f == CHOOSE x \in S : \A y \in S : Rank(x.base) <= Rank(y.base)
         IN  <<f>> \o Sorted(S \ {f})

Glob(samples, ext) == {f \in samples : f.ext = ext}

\* lines 166-168
Discover(samples) ==
    Sorted(Glob(samples, "pdf")) \o Sorted(Glob(samples, "png"))
        \o Sorted(Glob(samples, "jpg"))

\* files[:1], line 175
FirstOnly(fs) == IF fs = <<>> THEN <<>> ELSE <<Head(fs)>>

\* lines 154-155
DocIdUnpadded(file, i) == file.base \o "-" \o DecStr(i)

DocId(file, i) == file.base \o "-" \o ZeroPad(DecStr(i), 4)

\* the OCR texts a document may yield
OcrTexts ==
    { <<>>,
      <<TokBol, TokNoise, TokDateIso, TokLbs>>,
      <<TokKg, TokLbs, TokDateBad>> }

(***************************************************************************)
(* The tabular files.                                                      *)
(***************************************************************************)
NoFile == [exists |-> FALSE, rows |-> <<>>]

\* csv.writer writes None as the empty field and any other value as its text
Cell(v) == IF v = None THEN JStr("") ELSE v

RECURSIVE Cells(_)
Cells(vs) == IF vs = <<>> THEN <<>> ELSE <<Cell(Head(vs))>> \o Cells(Tail(vs))

HeadersHeader ==
    Cells(<<JStr("id"), JStr("bol_number"), JStr("pro_number"), JStr("ship_date"),
            JStr("carrier_scac"), JStr("total_weight"), JStr("total_packages")>>)

LinesHeader ==
    Cells(<<JStr("id"), JStr("description"), JStr("quantity"), JStr("package_type"),
            JStr("weight"), JStr("weight_unit")>>)

\* open(path, "a") after os.path.exists(path): the file is created, and the
\* header row written if it did not exist
OpenAppendTruncating(f, header) == [exists |-> TRUE, rows |-> <<header>>]

OpenAppendAlwaysHeader(f, header) ==
    [exists |-> TRUE, rows |-> f.rows \o <<header>>]

OpenAppend(f, header) ==
    IF ~f.exists THEN [exists |-> TRUE, rows |-> <<header>>]
    ELSE f

AppendRows(f, rows) == [f EXCEPT !.rows = @ \o rows]

AttributeError == Exc("AttributeError", <<"object", "has", "no", "attribute", "get">>, 0)
TypeError == Exc("TypeError", <<"object", "is", "not", "iterable">>, 0)

\* lines 108-116: the row of the headers table, or the exception raised
\* while the row is built
HeadersRow(id, d) ==
    IF ~IsDict(d) THEN Raise(AttributeError)
    ELSE LET carrier == PyOr(DictGet(d, "carrier", None), EmptyDict)
         IN  IF ~IsDict(carrier) THEN Raise(AttributeError)
             ELSE Return(Cells(<<
                    JStr(id),
                    PyOr(DictGet(d, "bol_number", None), JStr("")),
                    PyOr(DictGet(d, "pro_number", None), JStr("")),
                    PyOr(DictGet(d, "ship_date", None), JStr("")),
                    PyOr(DictGet(carrier, "scac", None), JStr("")),
                    PyOr(DictGet(d, "total_weight", None), JStr("")),
                    PyOr(DictGet(d, "total_packages", None), JStr(""))>>))

\* lines 125-132
LineRow(id, fl) ==
    Cells(<<JStr(id),
            DictGet(fl, "description", JStr("")),
            DictGet(fl, "quantity", JStr("")),
            DictGet(fl, "package_type", JStr("")),
            DictGet(fl, "weight", JStr("")),
            DictGet(fl, "weight_unit", JStr(""))>>)

RECURSIVE LineRowsReversed(_, _)
\* the loop run over reversed(freight_lines)
LineRowsReversed(id, fls) ==
    IF fls = <<>> \/ ~IsDict(fls[Len(fls)]) THEN <<>>
    ELSE <<LineRow(id, fls[Len(fls)])>> \o LineRowsReversed(id, SubSeq(fls, 1, Len(fls) - 1))

RECURSIVE LineRows(_, _)
\* the rows the loop of line 124 writes before it ends or raises: one per
\* leading element that is a dict
LineRows(id, fls) ==
    IF fls = <<>> \/ ~IsDict(Head(fls)) THEN <<>>
    ELSE <<LineRow(id, Head(fls))>> \o LineRows(id, Tail(fls))

\* what `for fl in data.get("freight_lines", [])` iterates over, or the
\* exception it raises before the first pass
LinesIter(d) ==
    LET x == DictGet(d, "freight_lines", JList(<<>>))
    IN  CASE x.t = "list" -> Return(x.v)
          [] x.t = "str"  -> Return(IF x.v = "" THEN <<>> ELSE <<JStr(x.v)>>)
          [] x.t = "obj"  -> Return(IF DOMAIN x.v = {} THEN <<>>
                                    ELSE <<JStr(CHOOSE k \in DOMAIN x.v : TRUE)>>)
          [] OTHER        -> Raise(TypeError)

(***************************************************************************)
(* extract_openai: one pass of the retry loop, lines 72-127.               *)
(***************************************************************************)
Continue == [kind |-> "continue"]

HTTPStatusError(status) == Exc("HTTPStatusError", <<"OpenAI", "HTTP">>, status)
AuthError == Exc("RuntimeError", <<"OpenAI", "auth", "failed", "(401/403)">>, 0)
MissingKeyError == Exc("RuntimeError", <<"OPENAI_API_KEY", "is", "missing/empty">>, 0)
ConnectError == Exc("ConnectError", <<"connection", "failed">>, 0)
ValueError == Exc("ValueError", <<"could", "not", "convert", "string", "to", "float">>, 0)
KeyError == Exc("KeyError", <<"choices">>, 0)

\* lines 109-119
ExceptHTTPStatusError(e) ==
    IF e.status \in {401, 403} THEN Raise(AuthError) ELSE Raise(e)

\* lines 120-127
ExceptException(e, att, maxAtt) ==
    IF att = maxAtt THEN Raise(e) ELSE Continue

\* lines 73-107 with the two handlers
Iteration(u, att, maxAtt) ==
    IF u.kind = "neterr" THEN ExceptException(ConnectError, att, maxAtt)
    ELSE IF u.status = 429 \/ (500 <= u.status /\ u.status < 600)
    THEN IF u.retryAfter = "garbage"
         THEN ExceptException(ValueError, att, maxAtt)      \* float(retry_after)
         ELSE IF att = maxAtt
         THEN ExceptHTTPStatusError(HTTPStatusError(u.status))
         ELSE Continue
    ELSE IF 400 <= u.status /\ u.status < 500
    THEN ExceptHTTPStatusError(HTTPStatusError(u.status))
    ELSE IF ~(200 <= u.status /\ u.status < 300)
    THEN ExceptHTTPStatusError(HTTPStatusError(u.status))   \* raise_for_status
    ELSE IF ~u.envelope
    THEN ExceptException(KeyError, att, maxAtt)             \* resp.json()[...]
    ELSE LET r == _coerce_json(u.content)
         IN  IF r.kind = "raise" THEN ExceptException(r.exc, att, maxAtt) ELSE r

(***************************************************************************)
(* process_one, lines 139-152: what becomes of the extraction call.        *)
(***************************************************************************)
QuotaMarker == "INSUFFICIENT_QUOTA"

\* "INSUFFICIENT_QUOTA" in str(e)
HasMarker(e) == \E i \in DOMAIN e.msg : e.msg[i] = QuotaMarker

\* the handler without the fallback
OnRemoteRaiseNoFallback(e, txt) == Raise(e)

\* the handler falling back on every RuntimeError
OnRemoteRaiseAnyRuntime(e, txt) ==
    IF e.cls = "RuntimeError" THEN extract_regex(txt) ELSE Raise(e)

\* lines 144-150
OnRemoteRaise(e, txt) ==
    IF e.cls = "RuntimeError"
    THEN IF HasMarker(e) THEN extract_regex(txt) ELSE Raise(e)
    ELSE Raise(e)

\* lines 140-152, given the outcome of the call to extract_openai
Extracted(res, txt) ==
    IF res.kind = "raise" THEN OnRemoteRaise(res.exc, txt) ELSE res

\* os.getenv(name, default): "" stands for an unset variable
Getenv(value, default) == IF value = "" THEN default ELSE value

\* str.upper()
Upper(x) == CASE x = "openai" -> "OPENAI" [] x = "regex" -> "REGEX" [] OTHER -> x

ModeEnvs == {"", "openai", "OPENAI"}

(***************************************************************************)
(* State.                                                                  *)
(***************************************************************************)
VARIABLES
    pc,             \* where main is: "idle", "ocr", "mode", "config", "post",
                    \* "json", "csv_headers", "csv_lines", "sleep", "returned",
                    \* "aborted"
    runs,           \* invocations of main so far
    discovered,     \* the files main found, in discovery order (lines 166-168)
    files,          \* main's `files` after line 175
    idx,            \* main's loop index
    text,           \* process_one's `text`
    mode,           \* process_one's MODE
    attempt,        \* extract_openai's `attempt`
    max_attempts,   \* extract_openai's `max_attempts`
    resp,           \* extract_openai's last answer of client.post
    requests,       \* history: requests this call of extract_openai has sent
    quotaSignalled, \* history: the upstream answered 429 insufficient_quota
                    \* while this document was extracted
    remote,         \* history: the outcome of this document's call to the
                    \* remote extractor
    data,           \* process_one's `data`
    raised,         \* the exception that ended main
    jsonFiles,      \* outputs/json: document id -> the value dumped
    headersCsv,     \* outputs/bol_headers.csv
    linesCsv,       \* outputs/bol_lines.csv
    snap,           \* history: the output files when this document began
    jsonWritten,    \* history: the ids whose snapshot this run wrote
    writers         \* the write_csvs calls of other processes under way on
                    \* the same outputs: for each its position, arguments
                    \* and the locals header_exists and lines_exists

fsv == <<jsonFiles, headersCsv, linesCsv>>
httpv == <<attempt, max_attempts, resp, requests, quotaSignalled>>
runv == <<runs, discovered, files, idx>>
vars == <<pc, runs, discovered, files, idx, text, mode, attempt, max_attempts,
          resp, requests, quotaSignalled, remote, data, raised, jsonFiles,
          headersCsv, linesCsv, snap, jsonWritten, writers>>

NoExc == Exc("", <<>>, 0)
NoResp == [kind |-> "none"]
NoCall == [kind |-> "none"]

Init ==
    /\ pc = "idle"
    /\ runs = 0
    /\ discovered = <<>>
    /\ files = <<>>
    /\ idx = 0
    /\ text = <<>>
    /\ mode = ""
    /\ attempt = 0
    /\ max_attempts = 0
    /\ resp = NoResp
    /\ requests = 0
    /\ quotaSignalled = FALSE
    /\ remote = NoCall
    /\ data = None
    /\ raised = NoExc
    /\ jsonFiles = <<>>
    /\ headersCsv = NoFile
    /\ linesCsv = NoFile
    /\ snap = <<<<>>, NoFile, NoFile>>
    /\ jsonWritten = {}
    /\ writers = <<>>

\* the locals of process_one and extract_openai before a document
ResetLocals ==
    /\ text' = <<>>
    /\ mode' = ""
    /\ attempt' = 0
    /\ max_attempts' = 0
    /\ resp' = NoResp
    /\ requests' = 0
    /\ quotaSignalled' = FALSE
    /\ remote' = NoCall
    /\ data' = None

\* an exception leaves process_one and main
Abort(e) ==
    /\ pc' = "aborted"
    /\ raised' = e

\* extract_openai is left (or was never entered): its locals are gone
LeaveOpenAI ==
    /\ attempt' = 0
    /\ max_attempts' = 0
    /\ resp' = NoResp
    /\ requests' = 0

\* process_one goes on with the extracted record, or the exception leaves
Proceed(res) ==
    IF res.kind = "return"
    THEN /\ data' = res.val
         /\ pc' = "json"
         /\ UNCHANGED raised
    ELSE /\ data' = data
         /\ Abort(res.exc)

(***************************************************************************)
(* main, lines 165-177: a run begins (the process is started on an output  *)
(* directory that earlier runs may have written).                          *)
(***************************************************************************)
StartRun ==
    /\ pc \in {"idle", "returned", "aborted"}
    /\ runs < MaxRuns
    /\ runs' = runs + 1
    /\ \E samples \in SampleSets :
         /\ discovered' = Discover(samples)
         /\ files' = FirstOnly(discovered')
    /\ IF discovered' = <<>>
       THEN pc' = "returned" /\ idx' = 0
       ELSE pc' = "ocr" /\ idx' = 1
    /\ raised' = NoExc
    /\ ResetLocals
    /\ snap' = fsv
    /\ jsonWritten' = {}
    /\ UNCHANGED <<fsv, writers>>

\* process_one, lines 136-137: ocr_any returns the text or raises
Ocr ==
    /\ pc = "ocr"
    /\ \E ok \in BOOLEAN :
         IF ok
         THEN /\ \E t \in OcrTexts : text' = t
              /\ pc' = "mode"
              /\ UNCHANGED raised
         ELSE /\ text' = text
              /\ Abort(Exc("UnidentifiedImageError", <<"cannot", "identify", "image">>, 0))
    /\ UNCHANGED <<runv, writers, mode, httpv, remote, data, fsv, snap, jsonWritten>>

\* process_one, lines 139-140 and 151-152
SelectMode ==
    /\ pc = "mode"
    /\ \E env \in ModeEnvs : mode' = Upper(Getenv(env, "REGEX"))
    /\ IF mode' = "OPENAI"
       THEN /\ pc' = "config"
            /\ UNCHANGED <<data, raised>>
       ELSE Proceed(extract_regex(text))
    /\ UNCHANGED <<runv, writers, text, httpv, remote, fsv, snap, jsonWritten>>

\* extract_openai, lines 45-72: the key check, the retry settings, the loop
\* entered (or, with no attempt allowed, left at once: the call returns None)
Config ==
    /\ pc = "config"
    /\ \E key \in {"", "sk-test"}, m \in 0..MaxAttempts :
         IF key = ""
         THEN /\ remote' = Raise(MissingKeyError)
              /\ Proceed(Extracted(remote', text))
              /\ UNCHANGED <<attempt, max_attempts>>
         ELSE IF m = 0
         THEN /\ remote' = Return(None)
              /\ Proceed(Extracted(remote', text))
              /\ UNCHANGED <<attempt, max_attempts>>
         ELSE /\ max_attempts' = m
              /\ attempt' = 1
              /\ pc' = "post"
              /\ UNCHANGED <<remote, data, raised>>
    /\ UNCHANGED <<runv, writers, text, mode, resp, requests, quotaSignalled, fsv, snap,
                   jsonWritten>>

\* extract_openai, lines 73-127: one request and what follows from its answer
Post ==
    /\ pc = "post"
    /\ \E u \in Upstream :
         LET it == Iteration(u, attempt, max_attempts)
         IN  /\ quotaSignalled' = (quotaSignalled \/ u.quota)
             /\ IF it = Continue
                THEN /\ resp' = u
                     /\ requests' = requests + 1
                     /\ attempt' = attempt + 1
                     /\ UNCHANGED <<max_attempts, pc, remote, data, raised>>
                ELSE /\ remote' = it
                     /\ Proceed(Extracted(it, text))
                     /\ LeaveOpenAI
    /\ UNCHANGED <<runv, writers, text, mode, fsv, snap, jsonWritten>>

\* the document process_one is working on, and its id
CurFile == files[idx]
CurId == DocId(CurFile, idx)

\* process_one, lines 154-159
WriteJson ==
    /\ pc = "json"
    /\ jsonFiles' = [k \in DOMAIN jsonFiles \cup {CurId} |->
                        IF k = CurId THEN data ELSE jsonFiles[k]]
    /\ jsonWritten' = jsonWritten \cup {CurId}
    /\ pc' = "csv_headers"
    /\ UNCHANGED <<runv, writers, text, mode, httpv, remote, data, raised, headersCsv,
                   linesCsv, snap>>

\* write_csvs, lines 103-116
WriteHeadersCsv ==
    /\ pc = "csv_headers"
    /\ LET f   == OpenAppend(headersCsv, HeadersHeader)
           row == HeadersRow(CurId, data)
       IN  IF row.kind = "return"
           THEN /\ headersCsv' = AppendRows(f, <<row.val>>)
                /\ pc' = "csv_lines"
                /\ UNCHANGED raised
           ELSE /\ headersCsv' = f
                /\ Abort(row.exc)
    /\ UNCHANGED <<runv, writers, text, mode, httpv, remote, data, jsonFiles, linesCsv,
                   snap, jsonWritten>>

\* write_csvs, lines 119-132
WriteLinesCsv ==
    /\ pc = "csv_lines"
    /\ LET f  == OpenAppend(linesCsv, LinesHeader)
           it == LinesIter(data)
       IN  IF it.kind = "raise"
           THEN /\ linesCsv' = f
                /\ Abort(it.exc)
           ELSE LET rows == LineRows(CurId, it.val)
                IN  /\ linesCsv' = AppendRows(f, rows)
                    /\ IF Len(rows) < Len(it.val)
                       THEN Abort(AttributeError)      \* fl.get on a non-dict
                       ELSE pc' = "sleep" /\ UNCHANGED raised
    /\ UNCHANGED <<runv, writers, text, mode, httpv, remote, data, jsonFiles, headersCsv,
                   snap, jsonWritten>>

\* process_one line 162 and main lines 179-181: the pause, then the next
\* file or the end of main
Sleep ==
    /\ pc = "sleep"
    /\ IF idx < Len(files)
       THEN /\ idx' = idx + 1
            /\ pc' = "ocr"
            /\ ResetLocals
            /\ snap' = fsv
       ELSE /\ pc' = "returned"
            /\ UNCHANGED <<idx, text, mode, httpv, remote, data, snap>>
    /\ UNCHANGED <<runs, discovered, files, raised, fsv, jsonWritten, writers>>

Next ==
    \/ StartRun
    \/ Ocr
    \/ SelectMode
    \/ Config
    \/ Post
    \/ WriteJson
    \/ WriteHeadersCsv
    \/ WriteLinesCsv
    \/ Sleep

Spec == Init /\ [][Next]_vars

(***************************************************************************)
(* The batch with the remote extractor replaced by a stub that always      *)
(* raises the quota-exhausted condition process_one looks for (line 146).  *)
(***************************************************************************)
QuotaExhausted == Exc("RuntimeError", <<QuotaMarker>>, 0)

\* process_one, line 143, with extract_openai stubbed
StubCall ==
    /\ pc = "config"
    /\ remote' = Raise(QuotaExhausted)
    /\ Proceed(Extracted(remote', text))
    /\ UNCHANGED <<runv, writers, text, mode, httpv, fsv, snap, jsonWritten>>

NextStub ==
    \/ StartRun
    \/ Ocr
    \/ SelectMode
    \/ StubCall
    \/ WriteJson
    \/ WriteHeadersCsv
    \/ WriteLinesCsv
    \/ Sleep

SpecStub == Init /\ [][NextStub]_vars

(***************************************************************************)
(* extract_regex alone, applied to every text of at most MaxTextLen        *)
(* lexemes.                                                                *)
(***************************************************************************)
InitRegex ==
    /\ pc = "regex"
    /\ runs = 0
    /\ discovered = <<>>
    /\ files = <<>>
    /\ idx = 0
    /\ text \in TextsUpTo(MaxTextLen)
    /\ mode = "REGEX"
    /\ attempt = 0
    /\ max_attempts = 0
    /\ resp = NoResp
    /\ requests = 0
    /\ quotaSignalled = FALSE
    /\ remote = NoCall
    /\ data = None
    /\ raised = NoExc
    /\ jsonFiles = <<>>
    /\ headersCsv = NoFile
    /\ linesCsv = NoFile
    /\ snap = <<<<>>, NoFile, NoFile>>
    /\ jsonWritten = {}
    /\ writers = <<>>

\* line 152: data = extract_regex(text)
ApplyRegex ==
    /\ pc = "regex"
    /\ Proceed(extract_regex(text))
    /\ UNCHANGED <<runv, writers, text, mode, httpv, remote, fsv, snap, jsonWritten>>

NextRegex == ApplyRegex

SpecRegex == InitRegex /\ [][NextRegex]_vars

(***************************************************************************)
(* write_csvs alone, on a fresh output location, called as process_one     *)
(* calls it (line 161) with each record extract_regex gives for a text of  *)
(* at most MaxTextLen lexemes and each value the remote extractor may      *)
(* return.                                                                 *)
(***************************************************************************)
WriteRecords ==
    {extract_regex(t).val : t \in TextsUpTo(MaxTextLen)} \cup LlmValues

InitWrite ==
    /\ pc = "csv_headers"
    /\ runs = 1
    /\ discovered = <<File("a", "pdf")>>
    /\ files = discovered
    /\ idx = 1
    /\ text = <<>>
    /\ mode = ""
    /\ attempt = 0
    /\ max_attempts = 0
    /\ resp = NoResp
    /\ requests = 0
    /\ quotaSignalled = FALSE
    /\ remote = NoCall
    /\ data \in WriteRecords
    /\ raised = NoExc
    /\ jsonFiles = <<>>
    /\ headersCsv = NoFile
    /\ linesCsv = NoFile
    /\ snap = <<<<>>, NoFile, NoFile>>
    /\ jsonWritten = {}
    /\ writers = <<>>

NextWrite ==
    \/ WriteHeadersCsv
    \/ WriteLinesCsv

SpecWrite == InitWrite /\ [][NextWrite]_vars

(***************************************************************************)
(* Two processes inside write_csvs at the same time on one fresh output    *)
(* location.  Each call is taken step by step: os.path.exists, open(path,  *)
(* "a"), and the end of the with block, where the rows written to the      *)
(* buffered file reach the file in one append.                             *)
(***************************************************************************)
Writers == {1, 2}

ConcRecords == {RecFull, RecNulls, RecCarrierStr}

\* the id process_one gives the one document of each process
WriterId(w) == IF w = 1 THEN DocId(File("a", "pdf"), 1) ELSE DocId(File("b", "pdf"), 1)

Writer(w, d) ==
    [pc |-> "exists_headers", id |-> WriterId(w), data |-> d,
     header_exists |-> FALSE, lines_exists |-> FALSE, raised |-> NoExc]

\* the header row written only into a file that is still empty at that time
HeaderIfUnseenRechecked(seen, f, header) ==
    IF ~seen /\ f.rows = <<>> THEN <<header>> ELSE <<>>

\* lines 106-107 and 122-123: `if not header_exists: w.writerow([...])`
HeaderIfUnseen(seen, f, header) == IF ~seen THEN <<header>> ELSE <<>>

InitConc ==
    /\ pc = "idle"
    /\ runs = 0
    /\ discovered = <<>>
    /\ files = <<>>
    /\ idx = 0
    /\ text = <<>>
    /\ mode = ""
    /\ attempt = 0
    /\ max_attempts = 0
    /\ resp = NoResp
    /\ requests = 0
    /\ quotaSignalled = FALSE
    /\ remote = NoCall
    /\ data = None
    /\ raised = NoExc
    /\ jsonFiles = <<>>
    /\ headersCsv = NoFile
    /\ linesCsv = NoFile
    /\ snap = <<<<>>, NoFile, NoFile>>
    /\ jsonWritten = {}
    /\ \E d1 \in ConcRecords, d2 \in ConcRecords :
           writers = [w \in Writers |-> Writer(w, IF w = 1 THEN d1 ELSE d2)]

mainv == <<pc, runv, text, mode, httpv, remote, data, raised, jsonFiles, snap,
           jsonWritten>>

\* line 103
ExistsHeaders(w) ==
    /\ writers[w].pc = "exists_headers"
    /\ writers' = [writers EXCEPT ![w].header_exists = headersCsv.exists,
                                  ![w].pc = "open_headers"]
    /\ UNCHANGED <<mainv, headersCsv, linesCsv>>

\* line 104
OpenHeaders(w) ==
    /\ writers[w].pc = "open_headers"
    /\ headersCsv' = [headersCsv EXCEPT !.exists = TRUE]
    /\ writers' = [writers EXCEPT ![w].pc = "close_headers"]
    /\ UNCHANGED <<mainv, linesCsv>>

\* lines 105-116
CloseHeaders(w) ==
    /\ writers[w].pc = "close_headers"
    /\ LET me  == writers[w]
           hdr == HeaderIfUnseen(me.header_exists, headersCsv, HeadersHeader)
           row == HeadersRow(me.id, me.data)
       IN  IF row.kind = "return"
           THEN /\ headersCsv' = AppendRows(headersCsv, hdr \o <<row.val>>)
                /\ writers' = [writers EXCEPT ![w].pc = "exists_lines"]
           ELSE /\ headersCsv' = AppendRows(headersCsv, hdr)
                /\ writers' = [writers EXCEPT ![w].pc = "raised",
                                              ![w].raised = row.exc]
    /\ UNCHANGED <<mainv, linesCsv>>

\* line 119
ExistsLines(w) ==
    /\ writers[w].pc = "exists_lines"
    /\ writers' = [writers EXCEPT ![w].lines_exists = linesCsv.exists,
                                  ![w].pc = "open_lines"]
    /\ UNCHANGED <<mainv, headersCsv, linesCsv>>

\* line 120
OpenLines(w) ==
    /\ writers[w].pc = "open_lines"
    /\ linesCsv' = [linesCsv EXCEPT !.exists = TRUE]
    /\ writers' = [writers EXCEPT ![w].pc = "close_lines"]
    /\ UNCHANGED <<mainv, headersCsv>>

\* lines 121-132
CloseLines(w) ==
    /\ writers[w].pc = "close_lines"
    /\ LET me  == writers[w]
           hdr == HeaderIfUnseen(me.lines_exists, linesCsv, LinesHeader)
           it  == LinesIter(me.data)
       IN  IF it.kind = "raise"
           THEN /\ linesCsv' = AppendRows(linesCsv, hdr)
                /\ writers' = [writers EXCEPT ![w].pc = "raised",
                                              ![w].raised = it.exc]
           ELSE LET rows == LineRows(me.id, it.val)
                IN  /\ linesCsv' = AppendRows(linesCsv, hdr \o rows)
                    /\ writers' = [writers EXCEPT
                            ![w].pc = IF Len(rows) < Len(it.val)
                                      THEN "raised" ELSE "returned",
                            ![w].raised = IF Len(rows) < Len(it.val)
                                          THEN AttributeError ELSE NoExc]
    /\ UNCHANGED <<mainv, headersCsv>>

NextConc ==
    \E w \in Writers :
        \/ ExistsHeaders(w)
        \/ OpenHeaders(w)
        \/ CloseHeaders(w)
        \/ ExistsLines(w)
        \/ OpenLines(w)
        \/ CloseLines(w)

SpecConc == InitConc /\ [][NextConc]_vars

(***************************************************************************)
(* Properties.                                                             *)
(***************************************************************************)
IsPrefix(s, t) == Len(s) <= Len(t) /\ SubSeq(t, 1, Len(s)) = s

\* the rows of g that follow the rows f already had
Appended(f, g) == SubSeq(g.rows, Len(f.rows) + 1, Len(g.rows))

\* rows without header rows
DataRows(rows, header) == SelectSeq(rows, LAMBDA r : r # header)

\* a file that exists starts with the header row and holds it nowhere else
HeaderOnce(f, header) ==
    IF f.exists
    THEN /\ Len(f.rows) >= 1
         /\ f.rows[1] = header
         /\ \A i \in 2..Len(f.rows) : f.rows[i] # header
    ELSE f.rows = <<>>

\* the freight lines of a record
FreightLinesOf(d) ==
    IF IsDict(d) /\ "freight_lines" \in DOMAIN d.v /\ d.v["freight_lines"].t = "list"
    THEN d.v["freight_lines"].v
    ELSE <<>>

\* C1: from a fresh output location, after any number of sequential
\* write_csvs calls each table that exists holds exactly one header row, as
\* its first row, and a call that returned leaves both tables in existence.
C1_HeaderOnce ==
    /\ HeaderOnce(headersCsv, HeadersHeader)
    /\ HeaderOnce(linesCsv, LinesHeader)
    /\ (pc = "sleep" => headersCsv.exists /\ linesCsv.exists)

\* two write_csvs calls have returned, the second just now
C1_Witness ==
    /\ pc = "sleep"
    /\ runs = 2
    /\ Len(DataRows(headersCsv.rows, HeadersHeader)) = 2
    /\ Len(linesCsv.rows) >= 2

\* C2: every step, in this run or a later one, leaves the previous rows of
\* both tables as a prefix of the new rows and removes neither file.
C2_AppendOnly ==
    [][ /\ IsPrefix(headersCsv.rows, headersCsv'.rows)
        /\ IsPrefix(linesCsv.rows, linesCsv'.rows)
        /\ (headersCsv.exists => headersCsv'.exists)
        /\ (linesCsv.exists => linesCsv'.exists) ]_vars

\* a later run has appended to tables an earlier run wrote
C2_Witness ==
    /\ runs = 2
    /\ pc = "returned"
    /\ Len(snap[2].rows) >= 2
    /\ Len(snap[3].rows) >= 2
    /\ Len(headersCsv.rows) > Len(snap[2].rows)
    /\ Len(linesCsv.rows) > Len(snap[3].rows)

\* C3: a persist that completes appends exactly one data row, carrying the
\* document id, to the headers table, and one data row per freight line of
\* the record, in the record's order, to the lines table (none when the
\* record has no freight lines).
C3_RowsPerPersist ==
    [][ /\ (pc = "csv_headers" /\ pc' = "csv_lines") =>
              LET new == DataRows(Appended(headersCsv, headersCsv'), HeadersHeader)
              IN  /\ Len(new) = 1
                  /\ new[1][1] = JStr(CurId)
        /\ (pc = "csv_lines" /\ pc' = "sleep") =>
              LET new == DataRows(Appended(linesCsv, linesCsv'), LinesHeader)
                  fls == FreightLinesOf(data)
              IN  /\ Len(new) = Len(fls)
                  /\ \A i \in DOMAIN new :
                        /\ new[i][1] = JStr(CurId)
                        /\ new[i][2] = Cell(DictGet(fls[i], "description", JStr("")))
                        /\ new[i][5] = Cell(DictGet(fls[i], "weight", JStr(""))) ]_vars

\* a record with two different freight lines has been persisted
C3_Witness ==
    /\ pc = "sleep"
    /\ data = RecFull
    /\ Len(linesCsv.rows) = 3
    /\ linesCsv.rows[2] # linesCsv.rows[3]

\* C4: with a remote extractor that always raises the quota-exhausted
\* condition, no document is aborted by the extraction, and the snapshot and
\* the table rows persisted for a document are those of extract_regex on
\* its OCR text, in remote-assisted mode as in pattern-only mode.
C4_StubFallback ==
    /\ (mode = "OPENAI" => pc # "aborted")
    /\ (pc \in {"csv_headers", "csv_lines", "sleep", "returned"} /\ idx \in DOMAIN files) =>
          LET r == extract_regex(text)
          IN  /\ r.kind = "return"
              /\ jsonFiles[CurId] = r.val
              /\ (pc \in {"sleep", "returned"}) =>
                    LET fls == FreightLinesOf(r.val)
                        n   == Len(linesCsv.rows)
                    IN  /\ headersCsv.rows[Len(headersCsv.rows)]
                              = HeadersRow(CurId, r.val).val
                        /\ Len(Appended(snap[3], linesCsv)) >= Len(fls)
                        /\ SubSeq(linesCsv.rows, n - Len(fls) + 1, n)
                              = LineRows(CurId, fls)

\* a document whose remote extraction raised quota exhaustion is persisted,
\* with a freight line
C4_Witness ==
    /\ mode = "OPENAI"
    /\ remote = Raise(QuotaExhausted)
    /\ pc = "returned"
    /\ FreightLinesOf(data) # <<>>
    /\ CurId \in DOMAIN jsonFiles

\* C5: quota exhaustion signalled by the upstream (HTTP 429 with the code
\* insufficient_quota) while extract_openai handles a document is not
\* terminal: the document is not aborted by it.
C5_QuotaNotTerminal ==
    (/\ mode = "OPENAI"
     /\ quotaSignalled
     /\ remote.kind = "raise"
     /\ remote.exc.status = 429) => pc # "aborted"

\* C6: when extract_openai fails with an error other than the quota
\* condition, main ends with that error, and for the rest of the run the
\* snapshots and both tables are what they were when the document began.
C6_AbortLeavesOutputs ==
    (remote.kind = "raise" /\ ~HasMarker(remote.exc)) =>
        /\ pc = "aborted"
        /\ raised = remote.exc
        /\ fsv = snap
        /\ jsonWritten = {}

\* an auth failure aborts a run that follows a run which persisted a document
C6_Witness ==
    /\ pc = "aborted"
    /\ remote = Raise(AuthError)
    /\ runs = 2
    /\ DOMAIN jsonFiles # {}
    /\ Len(headersCsv.rows) >= 2

HasAllKeys(d) ==
    /\ IsDict(d)
    /\ SchemaKeys \subseteq DOMAIN d.v
    /\ IsDict(d.v["carrier"]) => CarrierKeys \subseteq DOMAIN d.v["carrier"].v

\* C7: every persisted record contains every key of the BOL schema.
C7_SchemaComplete == \A id \in DOMAIN jsonFiles : HasAllKeys(jsonFiles[id])

\* C8: extract_regex returns for every text, its record holds every schema
\* key, every field whose pattern found nothing (or whose date candidate
\* cannot be parsed) is null, and freight_lines is empty when no weight
\* matched.
C8_RegexTotal ==
    pc # "regex" =>
        /\ pc = "json"
        /\ raised = NoExc
        /\ IsDict(data)
        /\ DOMAIN data.v = SchemaKeys
        /\ IsDict(data.v["carrier"])
        /\ DOMAIN data.v["carrier"].v = CarrierKeys
        /\ data.v["freight_lines"].t = "list"
        /\ (FindAll("bol", text) = <<>> => data.v["bol_number"] = None)
        /\ (FindAll("pro", text) = <<>> => data.v["pro_number"] = None)
        /\ (FindAll("scac", text) = <<>> => data.v["carrier"].v["scac"] = None)
        /\ (FindAll("date", text) = <<>> => data.v["ship_date"] = None)
        /\ (FindAll("date", text) # <<>>
              /\ parser_parse(Head(FindAll("date", text))).kind = "raise"
                 => data.v["ship_date"] = None)
        /\ (FindAll("weight", text) = <<>> =>
                data.v["total_weight"] = None /\ data.v["freight_lines"] = JList(<<>>))
        /\ data.v["carrier"].v["name"] = None
        /\ data.v["total_packages"] = None

\* extract_regex has returned on a text whose first date candidate cannot be
\* parsed and in which no weight matches
C8_Witness ==
    /\ pc = "json"
    /\ FindAll("date", text) # <<>>
    /\ Head(FindAll("date", text)) = DateCand(13, 2, 45, 2024, 4)
    /\ FindAll("weight", text) = <<>>
    /\ data.v["ship_date"] = None

\* C10: when main returns without an error, every discovered file has its
\* snapshot written in this run and a row in the headers table.
C10_AllDiscoveredPersisted ==
    (pc = "returned" /\ raised = NoExc) =>
        \A i \in DOMAIN discovered :
            /\ DocId(discovered[i], i) \in jsonWritten
            /\ \E j \in DOMAIN headersCsv.rows :
                   headersCsv.rows[j][1] = JStr(DocId(discovered[i], i))

\* k written with four digits, for k below ten
FourDigits(k) == "000" \o Digit(k)

\* C11: the snapshot process_one writes for the k-th discovered document is
\* filed under the base filename, "-" and k as four zero-padded digits, and
\* that id was given to no document processed before it in the run.
C11_DocIds ==
    [][ (pc = "json" /\ pc' = "csv_headers") =>
            LET id == discovered[idx].base \o "-" \o FourDigits(idx)
            IN  /\ idx \in 1..9
                /\ id \notin jsonWritten
                /\ jsonWritten' = jsonWritten \cup {id}
                /\ id \in DOMAIN jsonFiles' ]_vars

\* the first of three discovered files, b.pdf, has been given the id b-0001
C11_Witness ==
    /\ pc = "csv_headers"
    /\ Len(discovered) = 3
    /\ discovered[1] = File("b", "pdf")
    /\ jsonWritten = {"b-0001"}

\* an object's field is null or empty
Blank(d, k) == k \in DOMAIN d.v /\ d.v[k] \in {None, JStr("")}

\* the value of field k of the object d, or the empty string when the field
\* is null or missing
FieldOrEmpty(d, k) ==
    IF IsDict(d) /\ k \in DOMAIN d.v /\ d.v[k] # None THEN d.v[k] ELSE JStr("")

\* the field a column of the headers table names
HeadersField(d, col) ==
    IF col = "carrier_scac"
    THEN FieldOrEmpty(FieldOrEmpty(d, "carrier"), "scac")
    ELSE FieldOrEmpty(d, col)

\* C12: every row write_csvs appends has as many cells as its table's header
\* row; its first cell is the document id and every other cell is the value
\* of the field its column names, or the empty string when that field is
\* null or missing.
C12_RowCells ==
    /\ pc \in {"csv_lines", "sleep"} =>
          LET row == headersCsv.rows[Len(headersCsv.rows)]
          IN  /\ Len(row) = Len(HeadersHeader)
              /\ row[1] = JStr(CurId)
              /\ \A i \in 2..Len(row) : row[i] = HeadersField(data, HeadersHeader[i].v)
    /\ pc = "sleep" =>
          LET new == DataRows(linesCsv.rows, LinesHeader)
              fls == FreightLinesOf(data)
          IN  \A j \in DOMAIN new :
                  /\ Len(new[j]) = Len(LinesHeader)
                  /\ new[j][1] = JStr(CurId)
                  /\ \A i \in 2..Len(new[j]) :
                         new[j][i] = FieldOrEmpty(fls[j], LinesHeader[i].v)

\* a weight match in pounds: a kg or kgs match (any letter case) times
\* 2.20462, any other match as read
Pounds(m) ==
    IF m.unit \in {"kg", "kgs", "KG", "KGS", "Kg", "Kgs"}
    THEN m.w * KgToLb ELSE m.w * Scale

\* C13: when the text holds a weight match, extract_regex sets total_weight
\* to the largest of the matches' pound values and freight_lines to exactly
\* one line whose weight is total_weight and whose weight_unit is "lb";
\* when it holds none, total_weight is null and freight_lines is empty.
C13_Weights ==
    pc # "regex" =>
        LET ms     == FindAll("weight", text)
            pounds == {Pounds(ms[i]) : i \in DOMAIN ms}
            total  == data.v["total_weight"]
            fls    == data.v["freight_lines"]
        IN  IF ms # <<>>
            THEN /\ total.t = "num"
                 /\ total.v \in pounds
                 /\ \A p \in pounds : p <= total.v
                 /\ fls.t = "list"
                 /\ Len(fls.v) = 1
                 /\ fls.v[1].v["weight"] = total
                 /\ fls.v[1].v["weight_unit"] = JStr("lb")
            ELSE /\ total = None
                 /\ fls = JList(<<>>)

\* a text with 1200 lbs and then 1000 KG: the total is the kilogram match in
\* pounds, 2204.62, carried by the one freight line
C13_Witness ==
    /\ pc = "json"
    /\ text = <<TokLbs, TokKg>>
    /\ data.v["total_weight"] = JNum(1000 * KgToLb)
    /\ Len(data.v["freight_lines"].v) = 1

\* C14: what extract_openai returns to process_one is a JSON object; a null
\* or other non-object result is never returned and then persisted as the
\* document's snapshot.
C14_RemoteGivesObject ==
    (mode = "OPENAI" /\ remote.kind = "return" /\ jsonWritten # {}) =>
        /\ IsDict(remote.val)
        /\ \A id \in jsonWritten : IsDict(jsonFiles[id])

\* C15: in remote-assisted mode, when the record the remote extractor
\* returned has a null or empty ship_date and the OCR text holds a
\* date match that is a calendar date, the snapshot persisted for the
\* document has that date, in ISO form, as its ship_date.
C15_ShipDateBackfill ==
    (/\ mode = "OPENAI"
     /\ remote.kind = "return"
     /\ IsDict(remote.val)
     /\ Blank(remote.val, "ship_date")
     /\ FindAll("date", text) # <<>>
     /\ to_iso_date(Head(FindAll("date", text))).val # None
     /\ jsonWritten # {}) =>
        \A id \in jsonWritten :
            /\ IsDict(jsonFiles[id])
            /\ "ship_date" \in DOMAIN jsonFiles[id].v
            /\ jsonFiles[id].v["ship_date"]
                  = to_iso_date(Head(FindAll("date", text))).val

\* a number
IsNum(x) == x.t = "num"

\* C16: a record that comes with numeric gross_weight g and tare_weight t
\* and a null net_weight is persisted with net_weight g - t, and a record
\* whose net_weight is not null is persisted with that net_weight.
C16_NetWeight ==
    (/\ remote.kind = "return"
     /\ IsDict(remote.val)
     /\ {"gross_weight", "tare_weight", "net_weight"} \subseteq DOMAIN remote.val.v
     /\ IsNum(remote.val.v["gross_weight"])
     /\ IsNum(remote.val.v["tare_weight"])
     /\ jsonWritten # {}) =>
        \A id \in jsonWritten :
            /\ IsDict(jsonFiles[id])
            /\ "net_weight" \in DOMAIN jsonFiles[id].v
            /\ jsonFiles[id].v["net_weight"] =
                  IF remote.val.v["net_weight"] = None
                  THEN JNum(remote.val.v["gross_weight"].v - remote.val.v["tare_weight"].v)
                  ELSE remote.val.v["net_weight"]

\* the rows of a table that carry the document id
RowsOf(rows, id) == SelectSeq(rows, LAMBDA r : r[1] = JStr(id))

\* the ids of the data rows the run has appended to the headers table
IdsAppended ==
    LET new == DataRows(Appended(snap[2], headersCsv), HeadersHeader)
    IN  {new[i][1].v : i \in DOMAIN new}

\* C17: when a run has ended, by returning or by an error, a document id
\* has a snapshot written in the run exactly if the run appended one
\* headers row for the id and one lines row for each freight line of the
\* record.
C17_AllOrNothing ==
    pc \in {"returned", "aborted"} =>
        \A id \in jsonWritten \cup IdsAppended :
            id \in jsonWritten <=>
                /\ Len(RowsOf(Appended(snap[2], headersCsv), id)) = 1
                /\ Len(RowsOf(Appended(snap[3], linesCsv), id))
                      = Len(FreightLinesOf(jsonFiles[id]))

\* how often the header row occurs in a table
HeaderCount(f, header) == Len(SelectSeq(f.rows, LAMBDA r : r = header))

\* the processes that found the table absent and have ended their with block
WroteUnseen(after, flag) ==
    {w \in Writers : writers[w].pc \in after /\ ~writers[w][flag]}

\* C18: with two processes inside write_csvs at once, each table holds one
\* header row for every process that found the table absent before opening
\* it, so the header is in the table twice when both found it absent.
C18_HeaderPerUnseen ==
    /\ HeaderCount(headersCsv, HeadersHeader) =
          Cardinality(WroteUnseen({"exists_lines", "open_lines", "close_lines",
                                   "returned", "raised"}, "header_exists"))
    /\ HeaderCount(linesCsv, LinesHeader) =
          Cardinality({w \in WroteUnseen({"returned", "raised"}, "lines_exists") :
                          HeadersRow(writers[w].id, writers[w].data).kind = "return"})

\* both processes found the headers table absent and both have returned: the
\* table holds the header row twice
C18_Witness ==
    /\ \A w \in Writers : writers[w].pc = "returned" /\ ~writers[w].header_exists
    /\ HeaderCount(headersCsv, HeadersHeader) = 2
    /\ Len(headersCsv.rows) = 4

\* C19: a call of extract_openai sends at most OPENAI_MAX_ATTEMPTS requests
\* and ends either by returning a record (a JSON object) or by raising.
C19_BoundedCall ==
    /\ (pc = "post" => requests < max_attempts /\ attempt = requests + 1)
    /\ (mode = "OPENAI" /\ remote # NoCall) =>
           \/ remote.kind = "raise"
           \/ remote.kind = "return" /\ IsDict(remote.val)

\* C20: extract_openai sends another request only after a network error, an
\* HTTP 429 or an HTTP 5xx: after any other 4xx answer and after a
\* successful answer no further request follows.
C20_RetryOnlyTransient ==
    [][ (pc = "post" /\ pc' = "post") =>
            \/ resp'.kind = "neterr"
            \/ resp'.status = 429
            \/ resp'.status \in 500..599 ]_vars

==========================================================================
